---- MODULE Spec2Model ----
(***************************************************************************)
(* nanopolish_anchor.cpp: build_input_for_region and                       *)
(* match_read_to_reference_anchors.                                        *)
(*                                                                         *)
(* Vectors and strings are TLA+ sequences, so the C++ element v[i] is      *)
(* v[i + 1] below; every index variable (ai, ci, anchor_id) keeps the      *)
(* 0-based value it has in the source.                                     *)
(***************************************************************************)
EXTENDS Integers, Sequences, FiniteSets, TLC

(* ------------------------------------------------------------------ *)
(* Bounds of the explored inputs                                       *)
(* ------------------------------------------------------------------ *)
MaxStart == 1
MaxSpan == 6
MaxStride == 3
MaxShort == 3
MaxReads == 2
MaxIndel == 2

(* ------------------------------------------------------------------ *)
(* Program constants                                                   *)
(* ------------------------------------------------------------------ *)
K == 5
T_IDX == 0
C_IDX == 1

Min(a, b) == IF a <= b THEN a ELSE b
Max(a, b) == IF a >= b THEN a ELSE b

(* ------------------------------------------------------------------ *)
(* Base strings                                                        *)
(* ------------------------------------------------------------------ *)
Pattern == <<"A","A","C","A","G","A","T","C","C","G","C","T","G","G","T","T">>
BaseAt(i) == Pattern[(i % 16) + 1]

\* the reference contig: base at absolute position p
RefBase(p) == BaseAt(p + 3)

complement(b) ==
    CASE b = "A" -> "T"
      [] b = "C" -> "G"
      [] b = "G" -> "C"
      [] b = "T" -> "A"
      [] OTHER -> "N"

reverse_complement(s) ==
    [i \in 1..Len(s) |-> complement(s[Len(s) + 1 - i])]

\* std::string::substr(pos, n) with n converted to size_t: a negative count
\* wraps to a huge one, so the result runs to the end of the string.
\* pos > size() throws std::out_of_range (SubstrThrows).
SubstrThrows(s, pos) == pos > Len(s)
substr(s, pos, n) ==
    LET avail == Len(s) - pos
        cnt == IF n < 0 THEN avail ELSE Min(n, avail)
    IN  SubSeq(s, pos + 1, pos + cnt)

(* ------------------------------------------------------------------ *)
(* Alignment records                                                   *)
(* ------------------------------------------------------------------ *)
Op(o, n) == [op |-> o, len |-> n]

\* CigarInc with a deletion advancing the read cursor as well
CigarIncDeletionAdvancesRead(cigar_op) ==
    CASE cigar_op \in {"M", "=", "X", "D", "N"} -> [read_inc |-> 1, ref_inc |-> 1, ok |-> TRUE]
      [] cigar_op \in {"I", "S", "H"} -> [read_inc |-> 1, ref_inc |-> 0, ok |-> TRUE]
      [] OTHER -> [read_inc |-> 0, ref_inc |-> 0, ok |-> FALSE]

\* the increments of lines 225-241; ok = FALSE is the assert(false) branch
CigarInc(cigar_op) ==
    CASE cigar_op \in {"M", "=", "X"} -> [read_inc |-> 1, ref_inc |-> 1, ok |-> TRUE]
      [] cigar_op \in {"D", "N"}      -> [read_inc |-> 0, ref_inc |-> 1, ok |-> TRUE]
      [] cigar_op \in {"I", "S"}      -> [read_inc |-> 1, ref_inc |-> 0, ok |-> TRUE]
      [] cigar_op = "H"               -> [read_inc |-> 1, ref_inc |-> 0, ok |-> TRUE]
      [] OTHER                        -> [read_inc |-> 0, ref_inc |-> 0, ok |-> FALSE]

\* line 245: the iteration that finds the reference cursor at ref_pos writes
\* a slot
Samples(ref_pos, inc, start_, end_, stride_) ==
    /\ ref_pos >= start_
    /\ ref_pos <= end_
    /\ ref_pos % stride_ = 0
    /\ inc.ref_inc > 0

\* the inner loop, lines 244-254, over a run of j units: iteration t finds the
\* cursors at ref_pos + t*ref_inc and read_pos + t*read_inc; a slot written
\* more than once keeps the last write
WalkRun(w, j, inc, start_, end_, stride_) ==
    LET ref_at(t) == w.ref_pos + t * inc.ref_inc
        read_at(t) == w.read_pos + t * inc.read_inc
        writes(anchor_id) ==
            {t \in 0..(j - 1) :
                /\ Samples(ref_at(t), inc, start_, end_, stride_)
                /\ (ref_at(t) - start_) \div stride_ = anchor_id}
        last(ts) == CHOOSE t \in ts : \A u \in ts : u <= t
    IN  [out |-> [i \in 1..Len(w.out) |->
                    IF writes(i - 1) = {} THEN w.out[i]
                    ELSE read_at(last(writes(i - 1)))],
         read_pos |-> read_at(j),
         ref_pos |-> ref_at(j),
         ok |-> w.ok]

\* the outer loop, lines 218-255
RECURSIVE WalkCigar(_, _, _, _, _, _)
WalkCigar(w, cigar, ci, start_, end_, stride_) ==
    IF ~(ci < Len(cigar) /\ w.ref_pos <= end_) \/ ~w.ok THEN w
    ELSE LET inc == CigarInc(cigar[ci + 1].op)
         IN  IF ~inc.ok THEN [w EXCEPT !.ok = FALSE]
             ELSE WalkCigar(WalkRun(w, cigar[ci + 1].len, inc, start_, end_, stride_),
                            cigar, ci + 1, start_, end_, stride_)

NumAnchors(start_, end_, stride_) == ((end_ - start_) \div stride_) + 1

Walk(record, start_, end_, stride_) ==
    WalkCigar([out |-> [i \in 1..NumAnchors(start_, end_, stride_) |-> -1],
               read_pos |-> 0, ref_pos |-> record.pos, ok |-> TRUE],
              record.cigar, 0, start_, end_, stride_)

match_read_to_reference_anchors(record, start_, end_, stride_) ==
    Walk(record, start_, end_, stride_).out

\* the walk reached an operation that line 240 rejects
UnhandledCigar(record, start_, end_, stride_) ==
    ~Walk(record, start_, end_, stride_).ok

(* ------------------------------------------------------------------ *)
(* Collaborators: the signal-read repository                           *)
(* ------------------------------------------------------------------ *)
RECURSIVE CigarSum(_, _, _)
CigarSum(cigar, i, field) ==
    IF i > Len(cigar) THEN 0
    ELSE CigarInc(cigar[i].op)[field] * cigar[i].len + CigarSum(cigar, i + 1, field)

ReadLen(cigar) == CigarSum(cigar, 1, "read_inc")
RefLen(cigar) == CigarSum(cigar, 1, "ref_inc")

\* SquiggleRead(read_name, fast5_path): the base sequence of the named read
SquiggleRead(record) ==
    [read_name |-> record.qname,
     read_sequence |-> [i \in 1..ReadLen(record.cigar) |-> BaseAt(i + 6 * record.qname)]]

flip_k_strand(sr, k_idx) == Len(sr.read_sequence) - k_idx - K

\* nearest event of a k-mer: two events per k-mer on each strand, the
\* complement strand's events running in the opposite direction
get_closest_event_to(sr, k_idx, strand) ==
    LET last == Len(sr.read_sequence) - K
        k == Max(0, Min(k_idx, last))
    IN  IF last < 0 THEN -1
        ELSE IF strand = T_IDX THEN 2 * k ELSE 2 * (last - k) + 1

\* HMMStrandAnchor(): the default-constructed ("unset") anchor
HMMStrandAnchor == [event_idx |-> -1, rc |-> FALSE]

\* faidx_fetch_seq(fai, contig, start, end, &len): the interval, cut at the
\* end of the contig
faidx_fetch_len(contig_len_, start_, end_) ==
    Min(end_, contig_len_ - 1) - start_ + 1

(* ------------------------------------------------------------------ *)
(* State                                                               *)
(* ------------------------------------------------------------------ *)
VARIABLES
    start, end, stride,      \* the queried region and the anchor spacing
    contig_len,              \* length of the reference contig
    bam,                     \* the records sam_itr_next will return, in order
    fetched_len,             \* line 46
    pc,                      \* "iterate" | "anchors" | "transpose" | "done" | "abort"
    err,                     \* why the build aborted
    reads,                   \* ret.reads
    read_bases_for_anchors,  \* line 71
    event_anchors,           \* line 75
    ai,                      \* loop index of lines 83 and 152
    kidx,                    \* start_kidx, end_kidx, max_kidx of the last extraction
    read_anchors,            \* line 54
    read_substrings,         \* line 55
    anchored_columns         \* ret.anchored_columns

vars == <<start, end, stride, contig_len, bam, fetched_len, pc, err, reads,
          read_bases_for_anchors, event_anchors, ai, kidx, read_anchors,
          read_substrings, anchored_columns>>

inputs == <<start, end, stride, contig_len, bam, fetched_len>>

NoExtraction == [extracted |-> FALSE, start_kidx |-> 0, end_kidx |-> 0, max_kidx |-> 0]

(* ------------------------------------------------------------------ *)
(* Inputs                                                              *)
(* ------------------------------------------------------------------ *)
\* a read covering the longest region, and one base more
MaxReadLen == MaxSpan + 2

Cigars ==
    {<<Op("M", n)>> : n \in K..MaxReadLen}
    \cup {<<Op("M", n), Op("S", K - n)>> : n \in 1..(K - 1)}
    \cup {<<Op(c, 1), Op("M", n)>> : c \in {"S", "H"}, n \in {K - 1, MaxReadLen - 1}}
    \cup {<<Op("M", a), Op(x, d), Op("M", b)>> :
            a \in 1..3, x \in {"D", "I"}, d \in 1..MaxIndel, b \in 1..MaxReadLen}
    \cup {<<Op("M", 1), Op("N", 1), Op("M", K)>>,
          <<Op("=", 2), Op("X", 1), Op("=", K)>>,
          <<Op("M", K), Op("P", 1), Op("M", 1)>>,
          <<Op("P", 1), Op("M", K)>>}

\* a record the iterator can return for the region: it lies on the contig,
\* overlaps the region, and its read has at least one k-mer
Records(start_, end_, contig_len_) ==
    {r \in [qname : {0}, pos : (Max(0, start_ - 1))..start_, rev : BOOLEAN, cigar : Cigars] :
        /\ ReadLen(r.cigar) \in K..MaxReadLen
        /\ r.pos + RefLen(r.cigar) <= contig_len_
        /\ r.pos <= end_
        /\ r.pos + RefLen(r.cigar) > start_}

\* the smaller family files of several records are built from
FewRecords(start_, end_, contig_len_) ==
    {r \in Records(start_, end_, contig_len_) :
        /\ r.pos = start_
        /\ Len(r.cigar) <= 2
        /\ r.cigar[1].op = "M"
        /\ r.cigar[1].len \in {1, MaxReadLen}}

Named(rs) == [i \in 1..Len(rs) |-> [rs[i] EXCEPT !.qname = i]]

RECURSIVE Files(_, _)
Files(rs, n) ==
    IF n = 0 THEN {<<>>}
    ELSE {Append(f, r) : f \in Files(rs, n - 1), r \in rs}

BamFiles(start_, end_, contig_len_) ==
    {<<>>}
    \cup {Named(<<r>>) : r \in Records(start_, end_, contig_len_)}
    \cup {Named(f) : f \in UNION {Files(FewRecords(start_, end_, contig_len_), n) : n \in 2..MaxReads}}

\* the end-to-end scenario of the specification: region [1000, 1100],
\* stride 50, one read matching the whole region
E2E == [start |-> 1000, end |-> 1100, stride |-> 50]
E2EFiles ==
    {Named(<<[qname |-> 0, pos |-> E2E.start, rev |-> rv,
              cigar |-> <<Op("M", E2E.end - E2E.start + 1 + t)>>]>>) :
        rv \in BOOLEAN, t \in 0..1}

Init ==
    /\ \/ /\ start \in 0..MaxStart
          /\ stride \in 1..MaxStride
          /\ end \in start..(start + MaxSpan)
          /\ contig_len \in (Max(start + 1, end + 1 - MaxShort))..(end + 2)
          /\ bam \in BamFiles(start, end, contig_len)
       \/ /\ start = E2E.start
          /\ end = E2E.end
          /\ stride = E2E.stride
          /\ contig_len = E2E.end + 2
          /\ bam \in E2EFiles
    /\ fetched_len = faidx_fetch_len(contig_len, start, end)
    /\ pc = "iterate"
    /\ err = "none"
    /\ reads = <<>>
    /\ read_bases_for_anchors = <<>>
    /\ event_anchors = [T |-> <<>>, C |-> <<>>]
    /\ ai = 0
    /\ kidx = NoExtraction
    /\ read_anchors = <<>>
    /\ read_substrings = <<>>
    /\ anchored_columns = <<>>

(* ------------------------------------------------------------------ *)
(* build_input_for_region                                              *)
(* ------------------------------------------------------------------ *)
num_anchors == NumAnchors(start, end, stride)

Abort(why) ==
    /\ pc' = "abort"
    /\ err' = why

\* v.resize(n) of a vector that is shorter than n
resize(v, n) == [i \in 1..n |-> IF i <= Len(v) THEN v[i] ELSE <<>>]

\* lines 60-81: sam_itr_next returned a record; load its read and walk its
\* alignment
NextRead ==
    /\ pc = "iterate"
    /\ Len(reads) < Len(bam)
    /\ LET record == bam[Len(reads) + 1]
       IN  /\ reads' = Append(reads, SquiggleRead(record))
           /\ IF UnhandledCigar(record, start, end, stride)
              THEN /\ Abort("assert")
                   /\ UNCHANGED <<read_bases_for_anchors, event_anchors>>
              ELSE /\ read_bases_for_anchors' =
                          match_read_to_reference_anchors(record, start, end, stride)
                   /\ event_anchors' =
                          [T |-> [i \in 1..num_anchors |-> HMMStrandAnchor],
                           C |-> [i \in 1..num_anchors |-> HMMStrandAnchor]]
                   /\ pc' = "anchors"
                   /\ err' = err
    /\ ai' = 0
    /\ kidx' = NoExtraction
    /\ UNCHANGED <<inputs, read_anchors, read_substrings, anchored_columns>>

\* Extraction flipping the two coordinates without swapping them
ExtractionNoSwap(sr, do_base_rc, bases, i) ==
    LET max_kidx == Len(sr.read_sequence) - K
        s0 == bases[i + 1]
        e0 == bases[i + 2]
        s1 == IF do_base_rc THEN Len(sr.read_sequence) - s0 - K ELSE s0
        e1 == IF do_base_rc THEN Len(sr.read_sequence) - e0 - K ELSE e0
    IN  [extracted |-> TRUE,
         start_kidx |-> IF s1 >= 0 THEN s1 ELSE 0,
         end_kidx |-> IF e1 <= max_kidx THEN e1 ELSE max_kidx,
         max_kidx |-> max_kidx]

\* lines 104-124: the coordinates handed to substr for the interval starting
\* at anchor i of a read
Extraction(sr, do_base_rc, bases, i) ==
    LET max_kidx == Len(sr.read_sequence) - K
        s0 == bases[i + 1]
        e0 == bases[i + 2]
        s1 == IF do_base_rc THEN flip_k_strand(sr, e0) ELSE s0
        e1 == IF do_base_rc THEN flip_k_strand(sr, s0) ELSE e0
    IN  [extracted |-> TRUE,
         start_kidx |-> IF s1 >= 0 THEN s1 ELSE 0,
         end_kidx |-> IF e1 <= max_kidx THEN e1 ELSE max_kidx,
         max_kidx |-> max_kidx]

\* lines 124-128
AltSequence(sr, do_base_rc, x) ==
    LET s == substr(sr.read_sequence, x.start_kidx, x.end_kidx - x.start_kidx + K)
    IN  IF do_base_rc THEN reverse_complement(s) ELSE s

\* lines 92-100: the two strand anchors of a mapped position
StrandAnchors(sr, do_base_rc, k) ==
    LET template_rc == do_base_rc
        complement_rc == ~do_base_rc
        read_kidx == IF do_base_rc THEN flip_k_strand(sr, k) ELSE k
    IN  [T |-> [event_idx |-> get_closest_event_to(sr, read_kidx, T_IDX), rc |-> template_rc],
         C |-> [event_idx |-> get_closest_event_to(sr, read_kidx, C_IDX), rc |-> complement_rc]]

\* lines 83-135: one iteration of the loop over the read's anchors
MapAnchor ==
    /\ pc = "anchors"
    /\ ai < Len(read_bases_for_anchors)
    /\ LET record == bam[Len(reads)]
           sr == reads[Len(reads)]
           do_base_rc == record.rev
           sa == StrandAnchors(sr, do_base_rc, read_bases_for_anchors[ai + 1])
           x == Extraction(sr, do_base_rc, read_bases_for_anchors, ai)
           grown == IF ai >= Len(read_substrings)
                    THEN resize(read_substrings, ai + 1) ELSE read_substrings
       IN  IF read_bases_for_anchors[ai + 1] = -1
           THEN /\ ai' = ai + 1
                /\ kidx' = NoExtraction
                /\ UNCHANGED <<pc, err, event_anchors, read_substrings>>
           ELSE IF sa.T.event_idx = -1 \/ sa.C.event_idx = -1
           THEN /\ Abort("assert")
                /\ UNCHANGED <<ai, kidx, event_anchors, read_substrings>>
           ELSE /\ event_anchors' = [T |-> [event_anchors.T EXCEPT ![ai + 1] = sa.T],
                                     C |-> [event_anchors.C EXCEPT ![ai + 1] = sa.C]]
                /\ IF ai < Len(read_bases_for_anchors) - 1
                   THEN /\ kidx' = x
                        /\ IF SubstrThrows(sr.read_sequence, x.start_kidx)
                           THEN /\ Abort("out_of_range")
                                /\ UNCHANGED <<ai, read_substrings>>
                           ELSE /\ read_substrings' =
                                     [grown EXCEPT ![ai + 1] =
                                         Append(@, AltSequence(sr, do_base_rc, x))]
                                /\ ai' = ai + 1
                                /\ UNCHANGED <<pc, err>>
                   ELSE /\ kidx' = NoExtraction
                        /\ ai' = ai + 1
                        /\ UNCHANGED <<pc, err, read_substrings>>
    /\ UNCHANGED <<inputs, reads, read_bases_for_anchors, read_anchors, anchored_columns>>

\* line 137
PushAnchors ==
    /\ pc = "anchors"
    /\ ai = Len(read_bases_for_anchors)
    /\ read_anchors' = Append(read_anchors, event_anchors)
    /\ pc' = "iterate"
    /\ UNCHANGED <<inputs, err, reads, read_bases_for_anchors, event_anchors, ai, kidx,
                   read_substrings, anchored_columns>>

HMMAnchoredColumn == [anchors |-> <<>>, base_sequence |-> <<>>, alt_sequences |-> <<>>]

\* lines 143-151: the iterator is exhausted
BeginTranspose ==
    /\ pc = "iterate"
    /\ Len(reads) = Len(bam)
    /\ IF read_anchors = <<>>
       THEN /\ Abort("assert")
            /\ UNCHANGED <<ai, anchored_columns>>
       ELSE /\ anchored_columns' =
                  [i \in 1..Len(read_anchors[1].T) |-> HMMAnchoredColumn]
            /\ ai' = 0
            /\ pc' = "transpose"
            /\ err' = err
    /\ UNCHANGED <<inputs, reads, read_bases_for_anchors, event_anchors, kidx,
                   read_anchors, read_substrings>>

\* ColumnAnchors appending the complementary-strand anchor first
RECURSIVE ColumnAnchorsComplementFirst(_, _, _)
ColumnAnchorsComplementFirst(ras, rai, i) ==
    IF rai >= Len(ras) THEN <<>>
    ELSE <<ras[rai + 1].C[i + 1], ras[rai + 1].T[i + 1]>>
            \o ColumnAnchorsComplementFirst(ras, rai + 1, i)

\* lines 156-163
RECURSIVE ColumnAnchors(_, _, _)
ColumnAnchors(ras, rai, i) ==
    IF rai >= Len(ras) THEN <<>>
    ELSE <<ras[rai + 1].T[i + 1], ras[rai + 1].C[i + 1]>> \o ColumnAnchors(ras, rai + 1, i)

\* BaseLength without the cut at the end of the fetched reference
BaseLengthUncut(i) == stride + K

\* lines 170-172
BaseLength(i) ==
    IF i * stride + (stride + K) > fetched_len
    THEN fetched_len - i * stride
    ELSE stride + K

\* line 174: std::string(ref_segment + ai * stride, base_length)
BaseSequence(i, base_length) ==
    [j \in 1..base_length |-> RefBase(start + i * stride + j - 1)]

\* line 175: back() of an empty string is undefined; the assert may fire on
\* whatever byte is read, or pass
BackOutcomes(base_length) ==
    IF base_length = 0 THEN {"assert", "ok"} ELSE {"ok"}

\* line 178: read_substrings[ai] past the end of the vector is undefined; the
\* copy crashes or yields whatever the memory holds
AltOutcomes(i) ==
    IF i < Len(read_substrings)
    THEN {[crash |-> FALSE, value |-> read_substrings[i + 1]]}
    ELSE {[crash |-> TRUE, value |-> <<>>],
          [crash |-> FALSE, value |-> <<>>],
          [crash |-> FALSE, value |-> <<<<"?">>>>]}

\* lines 152-180: one iteration of the loop over the columns
TransposeColumn ==
    /\ pc = "transpose"
    /\ ai < Len(anchored_columns)
    /\ LET anchors == ColumnAnchors(read_anchors, 0, ai)
           base_length == BaseLength(ai)
       IN  IF ai /= Len(anchored_columns) - 1
           THEN IF base_length < 0
                THEN /\ Abort("length_error")
                     /\ anchored_columns' =
                            [anchored_columns EXCEPT ![ai + 1].anchors = anchors]
                     /\ ai' = ai
                ELSE \E back \in BackOutcomes(base_length), alt \in AltOutcomes(ai) :
                       IF back = "assert" \/ alt.crash
                       THEN /\ Abort(IF back = "assert" THEN "assert" ELSE "segv")
                            /\ anchored_columns' =
                                   [anchored_columns EXCEPT ![ai + 1].anchors = anchors]
                            /\ ai' = ai
                       ELSE /\ anchored_columns' =
                                   [anchored_columns EXCEPT ![ai + 1] =
                                       [anchors |-> anchors,
                                        base_sequence |-> BaseSequence(ai, base_length),
                                        alt_sequences |-> alt.value]]
                            /\ ai' = ai + 1
                            /\ UNCHANGED <<pc, err>>
           ELSE /\ anchored_columns' = [anchored_columns EXCEPT ![ai + 1].anchors = anchors]
                /\ ai' = ai + 1
                /\ UNCHANGED <<pc, err>>
    /\ UNCHANGED <<inputs, reads, read_bases_for_anchors, event_anchors, kidx,
                   read_anchors, read_substrings>>

\* lines 182-191
Cleanup ==
    /\ pc = "transpose"
    /\ ai = Len(anchored_columns)
    /\ pc' = "done"
    /\ UNCHANGED <<inputs, err, reads, read_bases_for_anchors, event_anchors, ai, kidx,
                   read_anchors, read_substrings, anchored_columns>>

Next ==
    \/ NextRead
    \/ MapAnchor
    \/ PushAnchors
    \/ BeginTranspose
    \/ TransposeColumn
    \/ Cleanup

Spec == Init /\ [][Next]_vars

TypeOK ==
    /\ pc \in {"iterate", "anchors", "transpose", "done", "abort"}
    /\ err \in {"none", "assert", "out_of_range", "length_error", "segv"}
    /\ (pc = "abort") = (err /= "none")
    /\ Len(reads) <= Len(bam)
    /\ Len(read_anchors) <= Len(reads)

(* ------------------------------------------------------------------ *)
(* Properties                                                          *)
(* ------------------------------------------------------------------ *)
\* the record whose anchors are being mapped
record_now == bam[Len(reads)]
sr_now == reads[Len(reads)]

IsMatchOp(o) == o.op \in {"M", "=", "X"}

\* only aligned-match runs, beginning at the region start and covering it
PureMatchCovering(r) ==
    /\ \A i \in 1..Len(r.cigar) : IsMatchOp(r.cigar[i])
    /\ r.pos = start
    /\ r.pos + RefLen(r.cigar) > end

\* C1: for a pure-match record that begins at the region start and covers the
\* region, every output slot i in 0..(end-start)/stride holds the read-base
\* coordinate i*stride, whatever the start and the stride.
C1_IdentityOffsetAnyStart ==
    (pc = "anchors" /\ PureMatchCovering(record_now)) =>
        \A i \in 0..((end - start) \div stride) :
            read_bases_for_anchors[i + 1] = i * stride

\* C2: an alternative sequence is appended for the interval [i, i+1) of a read
\* only if the read has a base coordinate at anchor i and at anchor i+1. After
\* a step of the loop that extracted, ai - 1 is the interval it extracted for.
C2_AltOnlyIfBothEndsAnchored ==
    (pc = "anchors" /\ kidx.extracted) =>
        /\ read_bases_for_anchors[ai] /= -1
        /\ read_bases_for_anchors[ai + 1] /= -1

\* C3: the start and the end coordinate passed to substr both lie in
\* [0, read_length - K]. Stated for the intervals whose two ends are anchored,
\* so that an unmapped end is not what breaks it.
C3_ExtractionWithinRange ==
    (/\ pc = "anchors"
     /\ kidx.extracted
     /\ read_bases_for_anchors[ai] /= -1
     /\ read_bases_for_anchors[ai + 1] /= -1) =>
        /\ 0 <= kidx.start_kidx /\ kidx.start_kidx <= kidx.max_kidx
        /\ 0 <= kidx.end_kidx /\ kidx.end_kidx <= kidx.max_kidx

\* C10: whenever the transposition loop runs, read_substrings has an entry for
\* every column index p < N - 1.
C10_SubstringsCoverColumns ==
    pc = "transpose" =>
        \A p \in 0..(Len(anchored_columns) - 2) : p < Len(read_substrings)

\* C5: with at least one read, the transposition yields N columns; exactly the
\* first N-1 carry a non-empty reference sub-sequence, of length stride + K cut
\* at the end of the fetched reference; the last column has anchors, no
\* reference sub-sequence and no alternative sequences. This for every length
\* the reference source returns.
C5_ColumnShape ==
    /\ err /= "length_error"
    /\ pc = "done" =>
        /\ Len(anchored_columns) = num_anchors
        /\ \A p \in 0..(num_anchors - 2) :
              /\ anchored_columns[p + 1].base_sequence /= <<>>
              /\ Len(anchored_columns[p + 1].base_sequence) =
                     Min(stride + K, fetched_len - p * stride)
        /\ anchored_columns[num_anchors].anchors /= <<>>
        /\ anchored_columns[num_anchors].base_sequence = <<>>
        /\ anchored_columns[num_anchors].alt_sequences = <<>>

\* the reference bases the end of column p shares with the start of column
\* p + 1: column p covers offsets p*stride .. p*stride + Len - 1, column p + 1
\* begins at offset (p + 1)*stride
Overlap(p) ==
    p * stride + Len(anchored_columns[p + 1].base_sequence) - (p + 1) * stride

Untruncated(p) == Len(anchored_columns[p + 1].base_sequence) = stride + K

\* C6: two consecutive columns p, p + 1 < N - 1 with untruncated reference
\* sub-sequences share K - 1 reference bases.
C6_OverlapIsKMinusOne ==
    pc = "done" =>
        \A p \in 0..(num_anchors - 3) :
            (Untruncated(p) /\ Untruncated(p + 1)) => Overlap(p) = K - 1

\* a record M(a) D(d) M(b), and the record that differs from it only in
\* matching the d reference bases instead of deleting them
IsDeletionRecord(r) ==
    /\ Len(r.cigar) = 3
    /\ r.cigar[1].op = "M" /\ r.cigar[2].op = "D" /\ r.cigar[3].op = "M"

PureMatchOf(r) ==
    [r EXCEPT !.cigar = <<Op("M", r.cigar[1].len + r.cigar[2].len + r.cigar[3].len)>>]

DelFirst(r) == r.pos + r.cigar[1].len
DelLast(r) == r.pos + r.cigar[1].len + r.cigar[2].len - 1

\* pure is the output of the walk for the pure-match record: a written slot
\* holds the offset of the reference position it sampled from the record's
\* position
PureOut(r) == match_read_to_reference_anchors(PureMatchOf(r), start, end, stride)
SampledPositions(r, pure) ==
    {r.pos + pure[i] : i \in {j \in 1..Len(pure) : pure[j] /= -1}}

DeletionBetweenSamples(r, pure) ==
    /\ SampledPositions(r, pure) \cap (DelFirst(r)..DelLast(r)) = {}
    /\ \E p \in SampledPositions(r, pure) : p < DelFirst(r)
    /\ \E p \in SampledPositions(r, pure) : p > DelLast(r)

\* C4: a deletion of length d strictly between two sampled positions leaves
\* the set of written slots as in the pure-match record, leaves the
\* coordinate of every sampled position before it unchanged and lowers the
\* coordinate of every sampled position after it by exactly d. Stated of
\* read_bases_for_anchors as the walk returned it (ai = 0).
C4_DeletionShiftsLaterAnchors ==
    (pc = "anchors" /\ ai = 0 /\ IsDeletionRecord(record_now)) =>
        LET pure == PureOut(record_now)
            d == record_now.cigar[2].len
        IN  DeletionBetweenSamples(record_now, pure) =>
               \A i \in 1..num_anchors :
                  IF pure[i] = -1
                  THEN read_bases_for_anchors[i] = -1
                  ELSE read_bases_for_anchors[i] =
                          IF record_now.pos + pure[i] < DelFirst(record_now)
                          THEN pure[i] ELSE pure[i] - d

\* a deletion of two bases after the first sampled position: the first slot
\* keeps its coordinate, the next one holds two less than the stride
C4_Witness ==
    /\ pc = "anchors"
    /\ ai = 0
    /\ IsDeletionRecord(record_now)
    /\ DeletionBetweenSamples(record_now, PureOut(record_now))
    /\ record_now.pos = start
    /\ start % stride = 0
    /\ record_now.cigar[2].len = 2
    /\ read_bases_for_anchors[1] = 0
    /\ read_bases_for_anchors[2] = stride - 2

\* the end-to-end scenario: the region of E2E, one read, aligned from the
\* region start and matching the whole region
E2EScenario ==
    /\ start = E2E.start /\ end = E2E.end /\ stride = E2E.stride
    /\ Len(bam) = 1
    /\ PureMatchCovering(bam[1])

\* C7 as stated: 3 sampled positions, anchors 0 and 1 set with identity
\* offsets, 2 anchored columns, column 0's reference sub-sequence of length
\* 50 + K and column 1's of length <= K, one alternative sequence in column 0
\* and none in column 1.
C7_AsStated ==
    (pc = "done" /\ E2EScenario) =>
        /\ num_anchors = 3
        /\ read_bases_for_anchors[1] = 0
        /\ read_bases_for_anchors[2] = 50
        /\ Len(anchored_columns) = 2
        /\ Len(anchored_columns[1].base_sequence) = 50 + K
        /\ Len(anchored_columns[2].base_sequence) <= K
        /\ Len(anchored_columns[1].alt_sequences) = 1
        /\ Len(anchored_columns[2].alt_sequences) = 0

\* C7, amended: 3 sampled positions, all three anchors set with identity
\* offsets 0, 50, 100; 3 anchored columns; column 0's reference sub-sequence
\* has length 50 + K, column 1's has length 51 (cut at the end of the 101
\* fetched bases), column 2's is empty; columns 0 and 1 carry one alternative
\* sequence each, column 2 none; every column carries the read's two anchors.
C7_EndToEnd ==
    (pc = "done" /\ E2EScenario) =>
        /\ num_anchors = 3
        /\ read_bases_for_anchors = <<0, 50, 100>>
        /\ Len(anchored_columns) = 3
        /\ Len(anchored_columns[1].base_sequence) = 50 + K
        /\ Len(anchored_columns[2].base_sequence) = 51
        /\ anchored_columns[3].base_sequence = <<>>
        /\ Len(anchored_columns[1].alt_sequences) = 1
        /\ Len(anchored_columns[2].alt_sequences) = 1
        /\ anchored_columns[3].alt_sequences = <<>>
        /\ \A c \in 1..3 :
              /\ Len(anchored_columns[c].anchors) = 2
              /\ anchored_columns[c].anchors[1].event_idx /= -1
              /\ anchored_columns[c].anchors[2].event_idx /= -1

C7_Witness ==
    /\ pc = "done"
    /\ E2EScenario
    /\ fetched_len = 101
    /\ Len(anchored_columns[1].alt_sequences[1]) = 50 + K

LastOf(s) == s[Len(s)]

\* C8: at every anchor with a base coordinate the primary-strand anchor's
\* flag is the record's reverse flag and the complementary-strand anchor's is
\* its negation; for a reverse-aligned read both event lookups use the flipped
\* coordinate, and the alternative sequence is the reverse complement of the
\* substring between the flipped and swapped (and clamped) end coordinates.
C8_StrandFlagsAndReverseExtraction ==
    pc = "anchors" =>
        /\ \A i \in 1..ai :
              read_bases_for_anchors[i] /= -1 =>
                 LET t == event_anchors.T[i]
                     c == event_anchors.C[i]
                     flipped == flip_k_strand(sr_now, read_bases_for_anchors[i])
                 IN  /\ t.rc = record_now.rev
                     /\ c.rc = ~record_now.rev
                     /\ t.rc /= c.rc
                     /\ record_now.rev =>
                           /\ t.event_idx = get_closest_event_to(sr_now, flipped, T_IDX)
                           /\ c.event_idx = get_closest_event_to(sr_now, flipped, C_IDX)
        /\ (kidx.extracted /\ record_now.rev) =>
              LET lo == Max(0, flip_k_strand(sr_now, read_bases_for_anchors[ai + 1]))
                  hi == Min(Len(sr_now.read_sequence) - K,
                            flip_k_strand(sr_now, read_bases_for_anchors[ai]))
              IN  LastOf(read_substrings[ai]) =
                     reverse_complement(substr(sr_now.read_sequence, lo, hi - lo + K))

\* a reverse-aligned read, anchored at both ends of an interval, whose
\* extraction starts inside the read and yields more than one k-mer
C8_Witness ==
    /\ pc = "anchors"
    /\ record_now.rev
    /\ kidx.extracted
    /\ read_bases_for_anchors[ai] /= -1
    /\ read_bases_for_anchors[ai + 1] /= -1
    /\ kidx.start_kidx > 0
    /\ kidx.end_kidx > kidx.start_kidx
    /\ Len(LastOf(read_substrings[ai])) > K
    /\ event_anchors.T[ai].rc /\ ~event_anchors.C[ai].rc

\* C9: every completed column has 2*R anchors; entry 2i is read i's
\* primary-strand anchor and entry 2i+1 its complementary-strand anchor, the
\* reads in the order of the loaded-read list.
C9_ColumnAnchorOrder ==
    pc \in {"transpose", "done"} =>
        \A r \in 1..Len(reads) :
            LET out == match_read_to_reference_anchors(bam[r], start, end, stride)
            IN  /\ reads[r].read_name = bam[r].qname
                /\ \A c \in 1..(IF pc = "done" THEN Len(anchored_columns) ELSE ai) :
                      LET a == anchored_columns[c].anchors
                      IN  /\ Len(a) = 2 * Len(reads)
                          /\ a[2 * r - 1] = read_anchors[r].T[c]
                          /\ a[2 * r] = read_anchors[r].C[c]
                          /\ IF out[c] = -1
                             THEN a[2 * r - 1] = HMMStrandAnchor /\ a[2 * r] = HMMStrandAnchor
                             ELSE /\ a[2 * r - 1].rc = bam[r].rev
                                  /\ a[2 * r].rc = ~bam[r].rev
                                  /\ a[2 * r - 1].event_idx /= -1
                                  /\ a[2 * r].event_idx /= -1

\* two reads of opposite orientation, the first anchored at the last column
\* and the second not
C9_Witness ==
    /\ pc = "done"
    /\ Len(reads) = 2
    /\ bam[1].rev /= bam[2].rev
    /\ LastOf(anchored_columns).anchors[1].event_idx /= -1
    /\ LastOf(anchored_columns).anchors[3].event_idx = -1
    /\ Len(anchored_columns) >= 2

====
